---- MODULE Spec2Model ----
(***************************************************************************)
(* The per-shard events loop of the gateway proxy (src/src/dispatch.rs)    *)
(* and the stub cache (src/src/cache.rs).                                   *)
(*                                                                          *)
(* A raw text frame is modelled by the JSON it holds: the envelope fields   *)
(* op, s, t (each an option: <<>> is "not there", <<v>> is "there") and the *)
(* body d.  JSON values are kept as their JSON text, so that any two of     *)
(* them can be compared.                                                    *)
(***************************************************************************)
EXTENDS Integers, Sequences, FiniteSets, TLC

\* ---------------------------------------------------------------- bounds
\* frames the transport hands to the loop in one run
MaxFrames == 3
\* frames of a run with subscribers attached to the bus
MaxBusFrames == 4
\* subscribers that may attach to the bus
MaxSubscribers == 2
\* slots the broadcast channel retains
BusCapacity == 1
\* the clock's last reading, in milliseconds
MaxTime == 1100
\* the width of usize in bits, scaled down
UsizeBits == 3
\* calls of get_ready_payload on one counter
MaxCalls == 2

\* ------------------------------------------------------------- JSON values
Absent == "<absent>"
JsonArrays == {"[]", "[{id:1},{id:2}]"}
EmptyArray == "[]"
ObjectBody == "{...}"

\* CONFIG.externally_accessible_url
ExternalUrl == "ws://proxy"
UpstreamUrl == "wss://upstream"

\* a JSON object: the fields of a READY body the loop reads or writes, and
\* one it does not touch
JsonObject(g, u, sid) == [guilds |-> g, resume_gateway_url |-> u, session_id |-> sid]
NoFields == JsonObject(Absent, Absent, Absent)

\* the body d of a frame: lit is its JSON text when it is no object
Body(lit, map) == [lit |-> lit, map |-> map]
Scalar(lit) == Body(lit, NoFields)
Object(map) == Body(ObjectBody, map)

\* a raw text frame
Text(op, s, t, d) == [op |-> op, s |-> s, t |-> t, d |-> d]

\* ------------------------------------------------------- frames of the runs
GoodReady == Text(<<0>>, <<1>>, <<"READY">>, Object(JsonObject("[{id:1},{id:2}]", UpstreamUrl, "a")))
SecondReady == Text(<<0>>, <<1>>, <<"READY">>, Object(JsonObject(EmptyArray, Absent, "b")))
NoGuildsReady == Text(<<0>>, <<1>>, <<"READY">>, Object(JsonObject(Absent, UpstreamUrl, "c")))
NullGuildsReady == Text(<<0>>, <<1>>, <<"READY">>, Object(JsonObject("null", UpstreamUrl, "d")))
BadReady == Text(<<0>>, <<1>>, <<"READY">>, Scalar("5"))
Resumed == Text(<<0>>, <<4>>, <<"RESUMED">>, Object(NoFields))
MessageCreate == Text(<<0>>, <<2>>, <<"MESSAGE_CREATE">>, Object(NoFields))
GuildCreate == Text(<<0>>, <<3>>, <<"GUILD_CREATE">>, Object(NoFields))
NoSeqDispatch == Text(<<0>>, <<>>, <<"TYPING_START">>, Object(NoFields))
Hello == Text(<<10>>, <<>>, <<>>, Object(NoFields))
InvalidateResumable == Text(<<9>>, <<>>, <<>>, Scalar("true"))
InvalidateFresh == Text(<<9>>, <<>>, <<>>, Scalar("false"))
TypedControl == Text(<<11>>, <<>>, <<"MESSAGE_CREATE">>, Object(NoFields))
UntypedDispatch == Text(<<0>>, <<5>>, <<>>, Object(NoFields))
Garbage == Text(<<>>, <<>>, <<>>, Scalar("<not json>"))

Texts ==
    { GoodReady, SecondReady, NoGuildsReady, NullGuildsReady, BadReady, Resumed,
      MessageCreate, GuildCreate, NoSeqDispatch, Hello, InvalidateResumable,
      InvalidateFresh, TypedControl, UntypedDispatch, Garbage }

\* what shard.next().await yields
Item(kind, payload) == [kind |-> kind, payload |-> payload]
TextItem(p) == Item("Text", p)
CloseItem == Item("Close", Garbage)
ErrItem == Item("Err", Garbage)
NoneItem == Item("None", Garbage)
Items == { TextItem(p) : p \in Texts } \cup { CloseItem, ErrItem, NoneItem }

\* ------------------------------------------------------------------ state
VARIABLES
    pc,                   \* where the task is: "await", "handle", "exited", "panicked"
    is_ready,             \* the readiness flag of the loop
    ready,                \* shard_state.ready: the published ready snapshot
    SHUTDOWN,             \* the process-wide shutdown flag
    event_type_flags,     \* the event types parse() is asked for
    received,             \* what shard.next() has yielded so far, in order
    bus_log,              \* the messages handed to broadcast_tx.send, in order
    sent_at,              \* for each of them, the place in received of its frame
    events_counted,       \* the gateway_shard_events counter
    cache_updates,        \* calls of shard_state.guilds.update
    now,                  \* the clock (Instant::now), in milliseconds
    last_metrics_update,  \* when the statistics were last sampled
    samples,              \* calls of update_shard_statistics
    subs,                 \* the bus's subscribers: attached or not, and their cursor
    inbox,                \* what each subscriber's recv has returned, in order
    sampled_at,           \* the clock reading of each call of update_shard_statistics
    updated_at,           \* for each call of guilds.update, the place in received of its frame
    guilds,               \* shard_state.guilds: what the cache holds
    gauges,               \* the gauges update_shard_statistics has set last
    seq,                  \* the sequence counter of a client being bootstrapped
    calls,                \* the calls of get_ready_payload on that counter, in order
    replay,               \* what get_guild_payloads has yielded last
    client_pc             \* the bootstrap: "running", or "panicked" on overflow

vars ==
    << pc, is_ready, ready, SHUTDOWN, event_type_flags, received, bus_log, sent_at,
       events_counted, cache_updates, now, last_metrics_update, samples, subs,
       inbox, sampled_at, updated_at, guilds, gauges, seq, calls, replay,
       client_pc >>

\* what only the bootstrap of a client touches
clientVars == << seq, calls, replay, client_pc >>

\* ------------------------------------------------------- envelope decoding
\* GatewayEvent::from_json then into_parts: None when no opcode is found, else
\* the opcode, the optional sequence number and the optional event type
from_json(payload) ==
    IF payload.op = <<>>
    THEN <<>>
    ELSE << [op |-> payload.op[1], sequence |-> payload.s, event_type |-> payload.t] >>

\* serde's from_str into Ready { d: JsonObject }: Ok only when d is an object
ready_from_str(payload) ==
    IF payload.d.lit = ObjectBody THEN << payload.d.map >> ELSE <<>>

\* "Clear the guilds": only a guilds field that is there and is an array
ClearGuilds(d) ==
    IF d.guilds # Absent /\ d.guilds \in JsonArrays
    THEN [d EXCEPT !.guilds = EmptyArray]
    ELSE d

OverrideUrlKept(d) == d
\* ready.d.insert("resume_gateway_url", CONFIG.externally_accessible_url)
OverrideUrl(d) == [d EXCEPT !.resume_gateway_url = ExternalUrl]

\* the blank READY stored for the shard
BlankReady(d) == OverrideUrl(ClearGuilds(d))

\* shard_state.ready: set_ready and set_not_ready
NotSet == [set |-> FALSE, d |-> NoFields]
set_ready(d) == [set |-> TRUE, d |-> d]
set_not_ready == NotSet

ShouldRelayAnyOp(op, flag) == flag
ShouldRelayAnyState(op, flag) == op = 0
\* the third branch of the event-type chain: op.0 == 0 && is_ready
ShouldRelay(op, flag) == op = 0 /\ flag

BroadcastMessageNoSeq(payload, sequence) == [payload |-> payload, sequence |-> <<>>]
\* (payload_copy, sequence)
BroadcastMessage(payload, sequence) == [payload |-> payload, sequence |-> sequence]

SendTwice(log, msg) == Append(Append(log, msg), msg)
\* broadcast_tx.send: the message is put on the bus once
Send(log, msg) == Append(log, msg)

\* -------------------------------------------------------------- parse()
KnownEventTypes == {"READY", "RESUMED", "MESSAGE_CREATE", "GUILD_CREATE", "TYPING_START"}
InvalidateFlag == "GATEWAY_INVALIDATE_SESSION"
HelloFlag == "GATEWAY_HELLO"

\* EventTypeFlags::try_from((opcode, event_type)): <<>> when there is none
EventTypeFlag(op, t) ==
    CASE op = 0 /\ t # <<>> /\ t[1] \in KnownEventTypes -> << t[1] >>
      [] op = 9 -> << InvalidateFlag >>
      [] op = 10 -> << HelloFlag >>
      [] OTHER -> <<>>

Parsed(tag, can_resume) == [tag |-> tag, can_resume |-> can_resume]

\* twilight_gateway::parse(payload, event_type_flags)
parse(payload, flags) ==
    IF payload.op = <<>> THEN Parsed("Err", FALSE)
    ELSE LET flag == EventTypeFlag(payload.op[1], payload.t) IN
         IF flag = <<>> \/ flag[1] \notin flags THEN Parsed("None", FALSE)
         ELSE CASE payload.op[1] = 9 ->
                     IF payload.d.lit \in {"true", "false"}
                     THEN Parsed("InvalidateSession", payload.d.lit = "true")
                     ELSE Parsed("Err", FALSE)
                [] payload.op[1] = 0 ->
                     IF payload.d.lit = ObjectBody
                     THEN Parsed("Dispatch", FALSE)
                     ELSE Parsed("Err", FALSE)
                [] OTHER -> Parsed("Other", FALSE)

\* CONFIG.cache.clone().into(): what the cache configuration asks for
CacheConfigs ==
    { {"READY", "GUILD_CREATE", InvalidateFlag},
      {"READY", "GUILD_CREATE", "MESSAGE_CREATE", InvalidateFlag, HelloFlag} }

\* ------------------------------------------------------ the events loop
UPDATE_INTERVAL == 500

SampleDueAtInterval(t, last) == t - last >= UPDATE_INTERVAL

\* "Update metrics if the last update was more than 0.5s ago"
SampleDue(t, last) == t - last > UPDATE_INTERVAL

NextOutcomeCloseStops(item, shutdown) ==
    CASE item.kind = "Text" -> "payload"
      [] item.kind = "Close" /\ ~shutdown -> "return"
      [] item.kind = "Close" -> "continue"
      [] item.kind = "Err" -> "continue"
      [] OTHER -> "return"
NextOutcomeCloseReturns(item, shutdown) ==
    CASE item.kind = "Text" -> "payload"
      [] item.kind = "Close" -> "return"
      [] item.kind = "Err" -> "continue"
      [] OTHER -> "return"
\* the match on shard.next().await
NextOutcome(item, shutdown) ==
    CASE item.kind = "Text" -> "payload"
      [] item.kind = "Close" /\ shutdown -> "return"
      [] item.kind = "Close" -> "continue"
      [] item.kind = "Err" -> "continue"
      [] OTHER -> "return"

Effect(panic, flag, snap, log) ==
    [panic |-> panic, is_ready |-> flag, ready |-> snap, bus_log |-> log]

EventTypeStepRelaysResumed(payload, ev, flag, snap, log) ==
    IF ev.event_type = <<>> THEN Effect(FALSE, flag, snap, log)
    ELSE LET event_name == ev.event_type[1] IN
         IF event_name = "READY"
         THEN LET r == ready_from_str(payload) IN
              IF r = <<>>
              THEN Effect(TRUE, flag, snap, log)
              ELSE Effect(FALSE, TRUE, set_ready(BlankReady(r[1])), log)
         ELSE IF event_name = "RESUMED"
         THEN Effect(FALSE, TRUE, snap, Send(log, BroadcastMessage(payload, ev.sequence)))
         ELSE IF ShouldRelay(ev.op, flag)
         THEN Effect(FALSE, flag, snap, Send(log, BroadcastMessage(payload, ev.sequence)))
         ELSE Effect(FALSE, flag, snap, log)
\* the branch on the event type of the envelope
EventTypeStep(payload, ev, flag, snap, log) ==
    IF ev.event_type = <<>> THEN Effect(FALSE, flag, snap, log)
    ELSE LET event_name == ev.event_type[1] IN
         IF event_name = "READY"
         THEN LET r == ready_from_str(payload) IN
              IF r = <<>>
              THEN Effect(TRUE, flag, snap, log)
              ELSE Effect(FALSE, TRUE, set_ready(BlankReady(r[1])), log)
         ELSE IF event_name = "RESUMED"
         THEN Effect(FALSE, TRUE, snap, log)
         ELSE IF ShouldRelay(ev.op, flag)
         THEN Effect(FALSE, flag, snap, Send(log, BroadcastMessage(payload, ev.sequence)))
         ELSE Effect(FALSE, flag, snap, log)

InvalidateReadyAlways(can_resume, snap) == set_not_ready
\* "We can only reset the READY state if ... we can not resume"
InvalidateReady(can_resume, snap) == IF ~can_resume THEN set_not_ready ELSE snap

ParseStepWhenReady(payload, flags, flag, snap, updates) ==
    LET event == parse(payload, flags) IN
    CASE event.tag = "Dispatch" ->
             [is_ready |-> flag, ready |-> snap,
              cache_updates |-> IF flag THEN updates + 1 ELSE updates]
      [] event.tag = "InvalidateSession" ->
             [is_ready |-> FALSE, ready |-> InvalidateReady(event.can_resume, snap),
              cache_updates |-> updates]
      [] OTHER -> [is_ready |-> flag, ready |-> snap, cache_updates |-> updates]
ParseStepDispatchSuspends(payload, flags, flag, snap, updates) ==
    LET event == parse(payload, flags) IN
    CASE event.tag = "Dispatch" ->
             [is_ready |-> FALSE, ready |-> snap, cache_updates |-> updates + 1]
      [] event.tag = "InvalidateSession" ->
             [is_ready |-> FALSE, ready |-> InvalidateReady(event.can_resume, snap),
              cache_updates |-> updates]
      [] OTHER -> [is_ready |-> flag, ready |-> snap, cache_updates |-> updates]
\* the branch on the fully parsed event
ParseStep(payload, flags, flag, snap, updates) ==
    LET event == parse(payload, flags) IN
    CASE event.tag = "Dispatch" ->
             [is_ready |-> flag, ready |-> snap, cache_updates |-> updates + 1]
      [] event.tag = "InvalidateSession" ->
             [is_ready |-> FALSE, ready |-> InvalidateReady(event.can_resume, snap),
              cache_updates |-> updates]
      [] OTHER -> [is_ready |-> flag, ready |-> snap, cache_updates |-> updates]

\* ------------------------------------------------------- the stub cache
\* Guilds::new(): the stub holds nothing
NoGuilds == {}

updateStores(g, value) == g \cup {value}
\* Guilds::update: "no-op: caching disabled"
update(g, value) == g

\* Guilds::stats and the getters of CacheStats
stats(g) ==
    [emojis |-> 0, guilds |-> 0, members |-> 0, presences |-> 0, channels |-> 0,
     roles |-> 0, unavailable_guilds |-> 0, users |-> 0, voice_states |-> 0]

\* usize::MAX
USIZE_MAX == 2 ^ UsizeBits - 1

\* Payload { d, op, t, s }
Payload(d, op, t, s) == [d |-> d, op |-> op, t |-> t, s |-> s]

get_ready_payload_keeps_guilds(body, sequence) ==
    LET bumped == (sequence + 1) % (USIZE_MAX + 1) IN
    [sequence |-> bumped, payload |-> Payload(body, "Dispatch", "READY", bumped)]
\* Guilds::get_ready_payload, the addition done in usize: the counter after the
\* call and the payload returned
get_ready_payload(body, sequence) ==
    LET bumped == (sequence + 1) % (USIZE_MAX + 1) IN
    [sequence |-> bumped,
     payload |-> Payload([body EXCEPT !.guilds = EmptyArray], "Dispatch", "READY", bumped)]

\* Guilds::get_guild_payloads: std::iter::empty(), the counter left alone
get_guild_payloads(sequence) == [sequence |-> sequence, payloads |-> <<>>]

\* --------------------------------------------------- the shard statistics
ConnectionStates == {"Active", "Disconnected", "Identifying", "Resuming", "FatallyClosed"}
\* shard.latency().recent(): none yet, or the most recent first
Latencies == { <<>>, << "0.042", "0.040" >> }

\* the gauges set by update_shard_statistics
update_shard_statistics(connection_status, latencies, g) ==
    [set |-> TRUE,
     status |-> CASE connection_status = "Active" -> 4
                  [] connection_status = "Disconnected" -> 1
                  [] connection_status = "Identifying" -> 2
                  [] connection_status = "Resuming" -> 3
                  [] OTHER -> 0,
     latency |-> IF latencies = <<>> THEN "NaN" ELSE latencies[1],
     cache |-> stats(g)]

\* no gauge set yet
NoGauges == [set |-> FALSE, status |-> 0, latency |-> "NaN", cache |-> stats(NoGuilds)]

\* ------------------------------------------------------------- the bus
Cursor(attached, next) == [attached |-> attached, next |-> next]
Subscribers == 1..MaxSubscribers

SendWaitsForRoom(s, tail) ==
    \A r \in DOMAIN s : s[r].attached => tail - s[r].next < BusCapacity
\* broadcast::Sender::send is no async fn: it returns at once, whoever reads
SendReturns(s, tail) == TRUE

\* ---------------------------------------------------------------- Init
InitLoop ==
    /\ pc = "await"
    /\ is_ready = FALSE
    /\ ready = NotSet
    /\ SHUTDOWN = FALSE
    /\ event_type_flags \in CacheConfigs
    /\ received = <<>>
    /\ bus_log = <<>>
    /\ sent_at = <<>>
    /\ events_counted = 0
    /\ cache_updates = 0
    /\ now = 0
    /\ last_metrics_update = 0
    /\ samples = 0
    /\ subs = [r \in Subscribers |-> Cursor(FALSE, 0)]
    /\ inbox = [r \in Subscribers |-> <<>>]
    /\ sampled_at = <<>>
    /\ updated_at = <<>>
    /\ guilds = NoGuilds
    /\ gauges = NoGauges

Init ==
    /\ InitLoop
    /\ seq = 0
    /\ calls = <<>>
    /\ replay = <<>>
    /\ client_pc = "running"

\* the frame the loop holds
cur == received[Len(received)]

\* top of the loop: the statistics are sampled when due, then the loop awaits
LoopTop ==
    /\ pc' = "await"
    /\ IF SampleDue(now, last_metrics_update)
       THEN /\ samples' = samples + 1
            /\ last_metrics_update' = now
            /\ sampled_at' = Append(sampled_at, now)
            /\ \E connection_status \in ConnectionStates, latencies \in Latencies :
                  gauges' = update_shard_statistics(connection_status, latencies, guilds')
       ELSE UNCHANGED << samples, last_metrics_update, sampled_at, gauges >>

\* shard.next().await yields item
Deliver(item, bound) ==
    /\ pc = "await"
    /\ Len(received) < bound
    /\ received' = Append(received, item)
    /\ pc' = "handle"
    /\ UNCHANGED << is_ready, ready, SHUTDOWN, event_type_flags, bus_log, sent_at,
                    events_counted, cache_updates, now, last_metrics_update, samples,
                    subs, inbox, sampled_at, updated_at, guilds, gauges, clientVars >>

\* one pass of the loop body on the frame held, up to the next await
Handle ==
    /\ pc = "handle"
    /\ UNCHANGED << SHUTDOWN, event_type_flags, received, now, subs, inbox, clientVars >>
    /\ LET outcome == NextOutcome(cur, SHUTDOWN)
           payload == cur.payload
           decoded == from_json(payload) IN
       IF outcome = "return"
       THEN /\ pc' = "exited"
            /\ UNCHANGED << is_ready, ready, bus_log, sent_at, events_counted,
                            cache_updates, last_metrics_update, samples, sampled_at,
                            updated_at, guilds, gauges >>
       ELSE IF outcome = "continue" \/ decoded = <<>>
       THEN /\ UNCHANGED << is_ready, ready, bus_log, sent_at, events_counted,
                            cache_updates, updated_at, guilds >>
            /\ LoopTop
       ELSE LET ev == decoded[1]
                a == EventTypeStep(payload, ev, is_ready, ready, bus_log)
                b == ParseStep(payload, event_type_flags, a.is_ready, a.ready, cache_updates)
            IN
            /\ Len(a.bus_log) > Len(bus_log) => SendReturns(subs, Len(bus_log))
            /\ events_counted' = IF ev.event_type = <<>> THEN events_counted
                                 ELSE events_counted + 1
            /\ bus_log' = a.bus_log
            /\ sent_at' = IF Len(a.bus_log) > Len(bus_log)
                          THEN Append(sent_at, Len(received)) ELSE sent_at
            /\ IF a.panic
               THEN /\ pc' = "panicked"
                    /\ UNCHANGED << is_ready, ready, cache_updates,
                                    last_metrics_update, samples, sampled_at,
                                    updated_at, guilds, gauges >>
               ELSE /\ is_ready' = b.is_ready
                    /\ ready' = b.ready
                    /\ cache_updates' = b.cache_updates
                    /\ updated_at' = IF b.cache_updates > cache_updates
                                     THEN Append(updated_at, Len(received))
                                     ELSE updated_at
                    /\ guilds' = IF b.cache_updates > cache_updates
                                 THEN update(guilds, payload)
                                 ELSE guilds
                    /\ LoopTop

\* the shutdown signal sets the process-wide flag
Shutdown ==
    /\ ~SHUTDOWN
    /\ SHUTDOWN' = TRUE
    /\ UNCHANGED << pc, is_ready, ready, event_type_flags, received, bus_log, sent_at,
                    events_counted, cache_updates, now, last_metrics_update, samples,
                    subs, inbox, sampled_at, updated_at, guilds, gauges, clientVars >>

Next ==
    \/ \E item \in Items : Deliver(item, MaxFrames)
    \/ Handle
    \/ Shutdown

Spec == Init /\ [][Next]_vars

\* ------------------------------------------------- the bus's subscribers
\* a subscriber attaches: it is handed what is sent from now on
Subscribe(r) ==
    /\ ~subs[r].attached
    /\ subs' = [subs EXCEPT ![r] = Cursor(TRUE, Len(bus_log))]
    /\ UNCHANGED << pc, is_ready, ready, SHUTDOWN, event_type_flags, received, bus_log,
                    sent_at, events_counted, cache_updates, now, last_metrics_update,
                    samples, inbox, sampled_at, updated_at, guilds, gauges, clientVars >>

\* the oldest message the channel still retains
Oldest(tail) == IF tail > BusCapacity THEN tail - BusCapacity ELSE 0

\* what recv returns: a message and its place on the bus, or the lag indicator
\* and the places it stands for
Received(at, msg) == [lag |-> FALSE, from |-> at, to |-> at + 1, msg |-> msg]
Lagged(from, to) ==
    [lag |-> TRUE, from |-> from, to |-> to, msg |-> BroadcastMessage(Garbage, <<>>)]

recv_silently_skips(next, log) ==
    IF next < Oldest(Len(log))
    THEN Received(Oldest(Len(log)), log[Oldest(Len(log)) + 1])
    ELSE Received(next, log[next + 1])
\* broadcast::Receiver::recv of a subscriber whose cursor is next
recv(next, log) ==
    IF next < Oldest(Len(log))
    THEN Lagged(next, Oldest(Len(log)))
    ELSE Received(next, log[next + 1])

\* a subscriber reads: the next message, or the lag indicator when the channel
\* has dropped what it had not read, which moves it to the oldest one retained
SubRecv(r) ==
    /\ subs[r].attached
    /\ subs[r].next < Len(bus_log)
    /\ subs' = [subs EXCEPT ![r].next =
                    IF subs[r].next < Oldest(Len(bus_log))
                    THEN Oldest(Len(bus_log))
                    ELSE subs[r].next + 1]
    /\ inbox' = [inbox EXCEPT ![r] = Append(@, recv(subs[r].next, bus_log))]
    /\ UNCHANGED << pc, is_ready, ready, SHUTDOWN, event_type_flags, received, bus_log,
                    sent_at, events_counted, cache_updates, now, last_metrics_update,
                    samples, sampled_at, updated_at, guilds, gauges, clientVars >>

\* the frames of the runs with subscribers
BusItems == { TextItem(GoodReady), TextItem(MessageCreate) }

\* the subscriber that keeps reading
Reader == 1

NextBus ==
    \/ \E item \in BusItems : Deliver(item, MaxBusFrames)
    \/ Handle
    \/ \E r \in Subscribers : Subscribe(r)
    \/ \E r \in Subscribers : SubRecv(r)

\* the task is scheduled again once its await returns, and the Reader keeps
\* reading; nothing is assumed of the other subscribers
SpecLive ==
    /\ Init
    /\ [][NextBus]_vars
    /\ WF_vars(Handle)
    /\ WF_vars(SubRecv(Reader))

\* --------------------------------------------------------------- the clock
TickSteps == {250, 501}

\* time passes while the loop awaits
Tick(dt) ==
    /\ now + dt <= MaxTime
    /\ now' = now + dt
    /\ UNCHANGED << pc, is_ready, ready, SHUTDOWN, event_type_flags, received, bus_log,
                    sent_at, events_counted, cache_updates, last_metrics_update,
                    samples, subs, inbox, sampled_at, updated_at, guilds, gauges,
                    clientVars >>

ClockItems == { TextItem(GoodReady), TextItem(MessageCreate), ErrItem }

NextClock ==
    \/ \E dt \in TickSteps : Tick(dt)
    \/ \E item \in ClockItems : Deliver(item, MaxFrames)
    \/ Handle

SpecClock == Init /\ [][NextClock]_vars

\* ------------------------------------------- the session's lifecycle
\* the frames of the runs in which lifecycle frames, other frames and
\* statistics samples mix
LifecycleItems ==
    { TextItem(GoodReady), TextItem(Resumed), TextItem(MessageCreate),
      TextItem(InvalidateFresh), TextItem(InvalidateResumable), TextItem(Hello),
      TextItem(Garbage), CloseItem, ErrItem }

\* long enough for the next pass of the loop to sample the statistics
SampleTick == UPDATE_INTERVAL + 1

NextLifecycle ==
    \/ Tick(SampleTick)
    \/ \E item \in LifecycleItems : Deliver(item, MaxFrames)
    \/ Handle

SpecLifecycle == Init /\ [][NextLifecycle]_vars

\* ------------------------------------------- the bootstrap of a client
\* the bodies handed to get_ready_payload: guilds missing, null, empty, filled
ReadyBodies ==
    { JsonObject(g, ExternalUrl, "a") : g \in {Absent, "null"} \cup JsonArrays }

\* the counter a caller hands in: fresh, or one call short of usize::MAX
SeqStarts == {0, USIZE_MAX - 1}

InitCache ==
    /\ InitLoop
    /\ seq \in SeqStarts
    /\ calls = <<>>
    /\ replay = <<>>
    /\ client_pc = "running"

loopVars ==
    << pc, is_ready, ready, SHUTDOWN, event_type_flags, received, bus_log, sent_at,
       events_counted, now, last_metrics_update, samples, subs, inbox, sampled_at,
       updated_at >>

\* guilds.get_ready_payload(body, &mut seq): at usize::MAX the addition panics
\* in a build with overflow checks and wraps in one without
GetReadyPayload(body) ==
    /\ client_pc = "running"
    /\ Len(calls) < MaxCalls
    /\ \E overflow_checks \in BOOLEAN :
          IF seq = USIZE_MAX /\ overflow_checks
          THEN /\ client_pc' = "panicked"
               /\ UNCHANGED << seq, calls >>
          ELSE LET out == get_ready_payload(body, seq) IN
               /\ seq' = out.sequence
               /\ calls' = Append(calls, [body |-> body, before |-> seq,
                                          after |-> out.sequence, payload |-> out.payload])
               /\ client_pc' = client_pc
    /\ UNCHANGED << loopVars, cache_updates, guilds, gauges, replay >>

\* guilds.get_guild_payloads(&mut seq), the iterator drained
GetGuildPayloads ==
    /\ client_pc = "running"
    /\ Len(replay) < MaxCalls
    /\ LET out == get_guild_payloads(seq) IN
       /\ seq' = out.sequence
       /\ replay' = Append(replay, [before |-> seq, after |-> out.sequence,
                                    payloads |-> out.payloads])
    /\ UNCHANGED << loopVars, cache_updates, guilds, gauges, calls, client_pc >>

\* guilds.update(value) on a dispatch event
CacheUpdate(value) ==
    /\ cache_updates < MaxCalls
    /\ cache_updates' = cache_updates + 1
    /\ guilds' = update(guilds, value)
    /\ UNCHANGED << loopVars, gauges, clientVars >>

\* update_shard_statistics reads guilds.stats()
StatsSample ==
    /\ \E connection_status \in ConnectionStates, latencies \in Latencies :
          gauges' = update_shard_statistics(connection_status, latencies, guilds)
    /\ UNCHANGED << loopVars, cache_updates, guilds, clientVars >>

\* the events the cache is updated with
CacheEvents == { GuildCreate, MessageCreate }

NextCache ==
    \/ \E body \in ReadyBodies : GetReadyPayload(body)
    \/ GetGuildPayloads
    \/ \E value \in CacheEvents : CacheUpdate(value)
    \/ StatsSample

SpecCache == InitCache /\ [][NextCache]_vars

\* ======================================================== the claims
\* what the formulas read off the history
\* the step is the loop handling the frame it holds
HandleStep == pc = "handle" /\ pc' # "handle"
Handled(i) == i < Len(received) \/ (i = Len(received) /\ pc # "handle")
IsText(i) == received[i].kind = "Text"
TypeOf(i) == received[i].payload.t
IsTyped(i, names) == IsText(i) /\ TypeOf(i) # <<>> /\ TypeOf(i)[1] \in names
IsInvalidate(i, lit) ==
    IsText(i) /\ received[i].payload.op = <<9>> /\ received[i].payload.d.lit = lit
\* an ordinary dispatch frame: opcode 0, an event type, not READY or RESUMED
IsOrdinaryDispatch(p) ==
    p.op = <<0>> /\ p.t # <<>> /\ p.t[1] \notin {"READY", "RESUMED"}
RelayedAfter(i) == \E k \in 1..Len(sent_at) : sent_at[k] > i
JustHandled == pc = "await" /\ received # <<>>

RECURSIVE IsSubseq(_, _)
IsSubseq(a, b) ==
    IF a = <<>> THEN TRUE
    ELSE IF b = <<>> THEN FALSE
    ELSE IF Head(a) = Head(b) THEN IsSubseq(Tail(a), Tail(b))
    ELSE IsSubseq(a, Tail(b))

\* C1: is_ready starts false, and no step in which is_ready is false puts a
\* message on the bus.
C1_NoRelayWhileNotReady ==
    /\ ~is_ready
    /\ [][bus_log' # bus_log => is_ready]_vars

\* a dispatch frame handled while not ready, and nothing on the bus
C1_Witness ==
    /\ JustHandled
    /\ cur = TextItem(MessageCreate)
    /\ ~is_ready
    /\ bus_log = <<>>

\* C2: the payloads on the bus are a subsequence of the text frames received,
\* in the order received, and no frame is on the bus twice.
C2_RelayInReceiveOrder ==
    /\ IsSubseq([k \in 1..Len(bus_log) |-> TextItem(bus_log[k].payload)], received)
    /\ Len(sent_at) = Len(bus_log)
    /\ \A k \in 1..Len(sent_at) :
          /\ sent_at[k] \in 1..Len(received)
          /\ received[sent_at[k]] = TextItem(bus_log[k].payload)
          /\ k > 1 => sent_at[k - 1] < sent_at[k]

\* two frames relayed in the order received
C2_Witness ==
    /\ received = << TextItem(GoodReady), TextItem(GuildCreate), TextItem(MessageCreate) >>
    /\ Len(bus_log) = 2
    /\ bus_log[1].payload = GuildCreate
    /\ bus_log[2].payload = MessageCreate

\* the loop has just handled a READY frame whose body is an object
ReadyJustHandled ==
    /\ JustHandled
    /\ IsTyped(Len(received), {"READY"})
    /\ cur.payload.d.lit = ObjectBody

\* C3 as stated: after a READY frame is processed the snapshot is its body
\* with guilds an empty array and resume_gateway_url the configured URL,
\* whatever the upstream frame held; the other fields are unchanged.
C3_Original ==
    ReadyJustHandled =>
        /\ ready.set
        /\ ready.d = [cur.payload.d.map EXCEPT !.guilds = EmptyArray,
                                               !.resume_gateway_url = ExternalUrl]

\* C3 as amended: after a READY frame with an object body is processed the
\* snapshot is that body with resume_gateway_url the configured URL and with
\* guilds emptied when upstream's guilds is an array; a guilds field that is
\* missing or is no array stays as upstream sent it; the other fields are
\* unchanged.
C3_BlankReadyPublished ==
    ReadyJustHandled =>
        LET body == cur.payload.d.map IN
        /\ ready.set
        /\ ready.d.resume_gateway_url = ExternalUrl
        /\ ready.d.session_id = body.session_id
        /\ body.guilds \in JsonArrays => ready.d.guilds = EmptyArray
        /\ body.guilds \notin JsonArrays => ready.d.guilds = body.guilds

\* a second READY has overwritten the snapshot of the first
C3_Witness ==
    /\ ReadyJustHandled
    /\ Len(received) = 2
    /\ received[1] = TextItem(GoodReady)
    /\ cur = TextItem(SecondReady)
    /\ ready.d = JsonObject(EmptyArray, ExternalUrl, "b")

\* C4 as stated: after a non-resumable invalidation is processed the snapshot
\* is absent until the next READY, the readiness flag is false after the
\* signal, and no frame received before the next READY is relayed.
C4_Original ==
    \A i \in 1..Len(received) :
        (/\ IsInvalidate(i, "false")
         /\ Handled(i)
         /\ \A j \in (i + 1)..Len(received) : ~IsTyped(j, {"READY"}))
        => /\ ~ready.set
           /\ (i = Len(received) => ~is_ready)
           /\ ~RelayedAfter(i)

\* C5: a resumable invalidation leaves the snapshot as it was and clears the
\* readiness flag, and nothing is relayed from then on until a READY or a
\* RESUMED frame is processed.
C5_ResumableInvalidation ==
    /\ [][(HandleStep /\ IsInvalidate(Len(received), "true"))
            => (ready' = ready /\ ~is_ready' /\ bus_log' = bus_log)]_vars
    /\ [](\A i \in 1..Len(received) :
            (/\ IsInvalidate(i, "true")
             /\ Handled(i)
             /\ \A j \in (i + 1)..Len(received) : ~IsTyped(j, {"READY", "RESUMED"}))
            => (~is_ready /\ ~RelayedAfter(i)))

\* a snapshot is published, the session is invalidated as resumable, and the
\* dispatch frame that follows is not relayed
C5_Witness ==
    /\ JustHandled
    /\ received = << TextItem(GoodReady), TextItem(InvalidateResumable),
                     TextItem(MessageCreate) >>
    /\ ready = set_ready(JsonObject(EmptyArray, ExternalUrl, "a"))
    /\ ~is_ready
    /\ bus_log = <<>>

\* C6 as stated: whenever a dispatch frame has just been put on the bus, a
\* ready snapshot is published for the shard.
C6_Original ==
    (/\ JustHandled
     /\ sent_at # <<>>
     /\ sent_at[Len(sent_at)] = Len(received))
    => ready.set

\* C7: while is_ready is true an ordinary dispatch frame is put on the bus
\* exactly once, as its raw text with the sequence number of its envelope.
C7_RelayedOnceWithSequence ==
    [][(/\ HandleStep
        /\ cur.kind = "Text"
        /\ is_ready
        /\ IsOrdinaryDispatch(cur.payload))
       => bus_log' = Append(bus_log, [payload |-> cur.payload,
                                      sequence |-> cur.payload.s])]_vars

\* MESSAGE_CREATE with s = 2 relayed as (text, 2)
C7_Witness ==
    /\ JustHandled
    /\ cur = TextItem(MessageCreate)
    /\ bus_log = << [payload |-> MessageCreate, sequence |-> <<2>>] >>

\* C8 as stated: no text frame stops the loop; after any of them the loop
\* awaits the next frame.
C8_Original ==
    (received # <<>> /\ cur.kind = "Text" /\ pc # "handle") => pc = "await"

C10_ProducerNeverBlocks ==
    /\ (pc = "handle") ~> (pc # "handle")
    /\ (subs[Reader].attached /\ subs[Reader].next < Len(bus_log))
          ~> (subs[Reader].next = Len(bus_log))

\* a subscriber has stopped reading and lost messages, the loop has handled
\* every frame, and the Reader has read all that was sent
C10_Witness ==
    /\ JustHandled
    /\ Len(received) = MaxBusFrames
    /\ \E r \in Subscribers \ {Reader} :
          /\ subs[r].attached
          /\ subs[r].next = 0
          /\ Len(bus_log) > BusCapacity
    /\ subs[Reader].attached
    /\ subs[Reader].next = Len(bus_log)

C12_SamplesHalfSecondApart ==
    /\ Len(sampled_at) = samples
    /\ \A k \in 1..Len(sampled_at) :
          sampled_at[k] - (IF k = 1 THEN 0 ELSE sampled_at[k - 1]) > 500

\* three frames handled, and a sample at two of them: the first frame handled
\* once more than 500 ms had passed since the start and since the sample before
C12_Witness ==
    /\ sampled_at = << 501, 1002 >>
    /\ Len(received) = 3
    /\ pc = "await"

\* C13 as stated: every call of get_ready_payload returns, adds exactly one to
\* the counter it is given and returns that new value as s, and each s is
\* greater than all those returned before on the same counter.
C13_Original ==
    /\ client_pc = "running"
    /\ \A k \in 1..Len(calls) :
          /\ calls[k].after = calls[k].before + 1
          /\ calls[k].payload.s = calls[k].after
          /\ \A j \in 1..(k - 1) : calls[j].payload.s < calls[k].payload.s

\* C17: every payload get_ready_payload returns has op Dispatch, t "READY",
\* s equal to the counter after the call, which is the counter bumped by one,
\* and as d the body it was given with guilds an empty array, whatever guilds
\* was or was not in that body, the other fields as given.
C17_ReadyPayloadShape ==
    \A k \in 1..Len(calls) :
        LET call == calls[k] IN
        /\ call.payload.op = "Dispatch"
        /\ call.payload.t = "READY"
        /\ call.payload.s = call.after
        /\ call.after = (call.before + 1) % (USIZE_MAX + 1)
        /\ call.payload.d.guilds = "[]"
        /\ call.payload.d.resume_gateway_url = call.body.resume_gateway_url
        /\ call.payload.d.session_id = call.body.session_id

\* one call with a body that has no guilds field, one with a filled one
C17_Witness ==
    /\ Len(calls) = 2
    /\ calls[1].body.guilds = Absent
    /\ calls[2].body.guilds = "[{id:1},{id:2}]"
    /\ calls[2].payload.s = 2

\* C20: whatever update was called with, the cache holds nothing, every
\* statistic that stats() feeds the gauges is zero, and every call of
\* get_guild_payloads yields nothing and leaves its counter as it was.
C20_StubCache ==
    /\ guilds = NoGuilds
    /\ gauges.set => \A name \in DOMAIN gauges.cache : gauges.cache[name] = 0
    /\ \A k \in 1..Len(replay) :
          /\ replay[k].payloads = <<>>
          /\ replay[k].after = replay[k].before

\* two updates, then the statistics sampled and the guild payloads asked for
\* on a counter a READY payload has bumped
C20_Witness ==
    /\ cache_updates = 2
    /\ gauges.set
    /\ Len(calls) = 1
    /\ Len(replay) = 1
    /\ replay[1].before = 1
    /\ seq = 1

\* C14 as stated: once a close frame received with the shutdown flag clear
\* has been handled, the loop runs on and the readiness flag is NotReady.
C14_Original == (JustHandled /\ cur = CloseItem) => ~is_ready

\* C14: handling a close frame while the shutdown flag is clear keeps the
\* loop running and leaves the snapshot, the readiness flag and the bus as
\* they were.
C14_CloseKeepsState ==
    [][(HandleStep /\ cur = CloseItem /\ ~SHUTDOWN) =>
          /\ pc' = "await"
          /\ ready' = ready
          /\ is_ready' = is_ready
          /\ bus_log' = bus_log]_vars

\* a close frame handled while ready, and the next dispatch frame relayed
C14_Witness ==
    /\ received = << TextItem(GoodReady), CloseItem, TextItem(MessageCreate) >>
    /\ pc = "await"
    /\ ~SHUTDOWN
    /\ is_ready
    /\ ready.set
    /\ Len(bus_log) = 1

\* the frame at i is one the loop hands to the cache: a dispatch frame with an
\* object body whose event type the cache configuration asks for
Wanted(i) ==
    /\ IsText(i)
    /\ received[i].payload.op = <<0>>
    /\ TypeOf(i) # <<>>
    /\ TypeOf(i)[1] \in event_type_flags
    /\ received[i].payload.d.lit = ObjectBody
UpdatesFrom(i) == Cardinality({k \in 1..Len(updated_at) : updated_at[k] = i})

\* C15 as stated: every dispatch frame handled, here even only those with an
\* object body and a loop that did not abort, has led to exactly one call of
\* update.
C15_Original ==
    \A i \in 1..Len(received) :
        (/\ Handled(i)
         /\ pc # "panicked"
         /\ IsText(i)
         /\ received[i].payload.op = <<0>>
         /\ TypeOf(i) # <<>>
         /\ received[i].payload.d.lit = ObjectBody) => UpdatesFrom(i) = 1

\* C15: a frame handled has led to exactly one call of update when it is a
\* dispatch frame with an object body whose event type the cache
\* configuration asks for, whatever the readiness flag was and whether or not
\* it was relayed, and to none otherwise; the calls are in receive order.
C15_UpdatePerWantedDispatch ==
    /\ cache_updates = Len(updated_at)
    /\ \A k \in 2..Len(updated_at) : updated_at[k - 1] < updated_at[k]
    /\ \A i \in 1..Len(received) :
          UpdatesFrom(i) = IF Handled(i) /\ Wanted(i) THEN 1 ELSE 0

\* not ready: a wanted dispatch frame updates the cache unrelayed, one the
\* configuration does not ask for does not, and the READY frame does
C15_Witness ==
    /\ received = << TextItem(GuildCreate), TextItem(MessageCreate), TextItem(GoodReady) >>
    /\ updated_at = << 1, 3 >>
    /\ bus_log = <<>>
    /\ is_ready

\* C16: handling a frame with event type RESUMED sets the readiness flag and
\* leaves the snapshot as it was, and handling a frame with event type READY
\* or RESUMED puts nothing on the bus, whatever the readiness flag is.
C16_ResumedSetsReady ==
    [][HandleStep =>
          /\ IsTyped(Len(received), {"RESUMED"}) =>
                (is_ready' /\ ready' = ready /\ pc' = "await")
          /\ IsTyped(Len(received), {"READY", "RESUMED"}) => bus_log' = bus_log]_vars

\* a RESUMED frame handled after a resumable invalidation: ready again, the
\* snapshot of the READY frame still there, nothing relayed
C16_Witness ==
    /\ received = << TextItem(GoodReady), TextItem(InvalidateResumable), TextItem(Resumed) >>
    /\ pc = "await"
    /\ is_ready
    /\ ready.set
    /\ bus_log = <<>>

\* C18: handling what is no text frame, or a frame without event type, or a
\* frame whose opcode is not 0, puts nothing on the bus.
C18_OnlyDispatchRelayed ==
    [][(/\ HandleStep
        /\ \/ ~IsText(Len(received))
           \/ TypeOf(Len(received)) = <<>>
           \/ cur.payload.op # <<0>>) => bus_log' = bus_log]_vars

\* while ready, a frame with an event type and opcode 11, and a frame with
\* opcode 0 and no event type, handled and not relayed
C18_Witness ==
    /\ received = << TextItem(GoodReady), TextItem(TypedControl), TextItem(UntypedDispatch) >>
    /\ pc = "await"
    /\ is_ready
    /\ bus_log = <<>>

\* C19: the snapshot is written only by handling a READY frame and cleared
\* only by handling a non-resumable invalidation, and the readiness flag
\* changes only by handling a READY, RESUMED or invalidate-session frame; no
\* other frame or stream item, and no statistics sample, changes either.
C19_LifecycleOnly ==
    [][/\ ready' # ready =>
            /\ HandleStep
            /\ \/ IsTyped(Len(received), {"READY"}) /\ ready'.set
               \/ IsInvalidate(Len(received), "false") /\ ready' = set_not_ready
       /\ is_ready' # is_ready =>
            /\ HandleStep
            /\ \/ IsTyped(Len(received), {"READY", "RESUMED"})
               \/ IsText(Len(received)) /\ cur.payload.op = <<9>>]_vars

\* ready, then a close frame and an ordinary dispatch frame handled, the
\* statistics sampled on the way: still ready, the snapshot still there
C19_Witness ==
    /\ received = << TextItem(GoodReady), CloseItem, TextItem(MessageCreate) >>
    /\ pc = "await"
    /\ Len(sampled_at) = 2
    /\ sampled_at[1] > 0
    /\ is_ready
    /\ ready.set

====
